---- MODULE Spec2Model ----
(***************************************************************************)
(* Running times calculator (src/runningtime.py).                          *)
(*                                                                         *)
(* The program reads a list of track sections (length in m, speed limit in *)
(* km/h), appends a zero-length zero-speed sentinel and simulates a train   *)
(* that starts at rest.  One loop iteration decides a mode and integrates   *)
(* one step.                                                               *)
(*                                                                         *)
(* Numbers: the program computes in floating point.  Here every speed,     *)
(* distance and time is an integer count of 1/Scale (m/s, m, s).  With      *)
(* Scale = 360 the program's constants are exact: 0.85 = 306, 0.85/2 = 153, *)
(* 8.5 = 3060, d km/h = 100*d.  The only roundings are the two square roots *)
(* (rounded down to 1/Scale) and the divisions of maxpower and of the halt  *)
(* branch.  Comparisons are the exact ones: where the program's sums land a *)
(* rounding error beside an exact tie (0.85 reached by repeated subtraction *)
(* against nextspeed + 0.85), the model compares the exact values.          *)
(***************************************************************************)
EXTENDS Integers, Sequences, FiniteSets, TLC

\* Fixed-point resolution of the model: units per m, per m/s and per s.
Scale == 360

(* ---------------------------- bounds ----------------------------------- *)
\* Largest number of sections the user enters (the sentinel comes on top).
MaxSections == 2
\* The loop is followed for at most this many simulated seconds.
MaxTime == 180
\* Inputs of residual_speed in its own specification: speed = i * RSSpeedStep
\* for i in -1..MaxSpeedSteps, distance = j * RSDistStep for j in -1..MaxDistSteps.
MaxSpeedSteps == 30
MaxDistSteps == 30

\* Section lengths (m) and speed limits (km/h) the user may enter.
Lengths == {265, 500, 2000}
Limits == {10, 40, 60, 120, 400}
RSSpeedStep == 5 * 153 + 1
RSDistStep == 4 * Scale + 7

(* ---------------------------- constants -------------------------------- *)
KmhToSpeed(d) == (d * 10 * Scale) \div 36
LINESPEED == KmhToSpeed(400)
TRAINLENGTH == 264 * Scale
LEEWAY == 1 * Scale
FullAccel == (85 * Scale) \div 100
HalfAccel == FullAccel \div 2
accel == [Brake |-> -FullAccel, Cruise |-> 0, Power |-> FullAccel]

Min(a, b) == IF a < b THEN a ELSE b

\* floor of the square root, by bisection; 46340 = floor(sqrt(2^31 - 1))
RECURSIVE SqrtSearch(_, _, _)
SqrtSearch(n, lo, hi) ==
    IF lo >= hi THEN lo
    ELSE LET mid == (lo + hi + 1) \div 2
         IN  IF mid * mid <= n THEN SqrtSearch(n, mid, hi)
                               ELSE SqrtSearch(n, lo, mid - 1)
sqrt(n) == SqrtSearch(n, 0, 46340)

(* ---------------------------- state ------------------------------------ *)
VARIABLES
    tracksections,  \* the entered sections followed by the sentinel <<0, 0>>
    section,        \* the iterator: how many sections next() has handed out
    t, prevspeed, cursection, curspeed, nextsection, nextspeed,
    posn, mode, speed,
    outcome,        \* "Running", or how the program ended
    rs_speed, rs_distance,   \* the arguments of a call of residual_speed
    rs_result                \* <<>> before the call returns, <<r>> after

vars == <<tracksections, section, t, prevspeed, cursection, curspeed,
          nextsection, nextspeed, posn, mode, speed, outcome,
          rs_speed, rs_distance, rs_result>>
simvars == <<tracksections, section, t, prevspeed, cursection, curspeed,
             nextsection, nextspeed, posn, mode, speed, outcome>>
rsvars == <<rs_speed, rs_distance, rs_result>>

\* Tracks on which the train passes 200 km/h and has room to come to rest; on
\* the second one it comes to rest on the very end of the last section.
ExtraTracks ==
    { <<(<<2000, 400>>), (<<2500, 400>>)>>,
      <<(<<3000, 250>>), (<<1000, 220>>), (<<2131, 400>>)>> }

\* What the user may type: 1..MaxSections pairs (length m, limit km/h).
InputTracks ==
    UNION {[1..n -> Lengths \X Limits] : n \in 1..MaxSections} \cup ExtraTracks

\* tracksections.append((int(n), min(int(d)/3.6, LINESPEED))), then the sentinel
ReadTrack(input) ==
    [i \in 1..(Len(input) + 1) |->
        IF i <= Len(input)
        THEN <<input[i][1] * Scale, Min(KmhToSpeed(input[i][2]), LINESPEED)>>
        ELSE <<0, 0>>]

(* ---------------------------- residual_speed --------------------------- *)
\* b*b - 4*a*c with a = 0.425, b = -speed, c = distance, in 1/Scale^2
Discriminant(spd, distance) == spd * spd - 2 * FullAccel * distance

\* residual_speed taking the other root, (-b + sqrt(discriminant)) / (2*a).
ResidualSpeedOtherRoot(spd, distance) ==
    IF Discriminant(spd, distance) < 0
    THEN 0
    ELSE LET t085 == spd + sqrt(Discriminant(spd, distance))
         IN  spd - t085

\* t = (-b - sqrt(discriminant)) / (2*a) is kept as the numerator
\* 0.85 * t = -b - sqrt(discriminant), so that 0.85*t is exact.
ResidualSpeed(spd, distance) ==
    IF Discriminant(spd, distance) < 0
    THEN 0
    ELSE LET t085 == spd - sqrt(Discriminant(spd, distance))
         IN  spd - t085

(* ---------------------------- one iteration ---------------------------- *)
maxspeed == Min(curspeed, IF posn < TRAINLENGTH THEN prevspeed ELSE LINESPEED)

\* The check with a tolerance of LEEWAY that the program does not have.
DerailsWithTolerance == speed > maxspeed + LEEWAY

Derails == speed > maxspeed

distance_to_full_braking_power ==
    CASE mode = "Brake" -> 2 * (speed - HalfAccel)
      [] mode = "Power" -> (speed + HalfAccel) + 4 * (speed + FullAccel + HalfAccel)
      [] OTHER          -> speed + 2 * (speed - HalfAccel)

speed_full_brake ==
    CASE mode = "Brake" -> speed - FullAccel
      [] mode = "Power" -> speed + FullAccel
      [] OTHER          -> speed - FullAccel

distance_left == cursection - posn - distance_to_full_braking_power

\* The brake trigger without the metre per second of leeway.
BrakeTriggerNoLeeway ==
    /\ ResidualSpeed(speed_full_brake, distance_left) > nextspeed
    /\ speed > nextspeed

BrakeTrigger ==
    /\ ResidualSpeed(speed_full_brake, distance_left) >= nextspeed - LEEWAY
    /\ speed > nextspeed - LEEWAY

\* The mode decision without the back-off: Power goes straight to Brake.
nextmode_no_back_off ==
    IF mode = "Brake"
    THEN IF speed < nextspeed + FullAccel THEN "Cruise" ELSE "Brake"
    ELSE IF BrakeTrigger
    THEN "Brake"
    ELSE IF speed < maxspeed
    THEN IF mode = "Cruise" /\ speed >= maxspeed - 10 * FullAccel
         THEN "Cruise"
         ELSE IF mode = "Brake" THEN "Cruise" ELSE "Power"
    ELSE "Cruise"

\* The mode decision without the dwell test: Cruise powers whenever below maxspeed.
nextmode_no_dwell ==
    IF mode = "Brake"
    THEN IF speed < nextspeed + FullAccel THEN "Cruise" ELSE "Brake"
    ELSE IF BrakeTrigger
    THEN IF mode = "Power" THEN "Cruise" ELSE "Brake"
    ELSE IF speed < maxspeed
    THEN IF mode = "Brake" THEN "Cruise" ELSE "Power"
    ELSE "Cruise"

nextmode ==
    IF mode = "Brake"
    THEN IF speed < nextspeed + FullAccel THEN "Cruise" ELSE "Brake"
    ELSE IF BrakeTrigger
    THEN IF mode = "Power" THEN "Cruise" ELSE "Brake"
    ELSE IF speed < maxspeed
    THEN IF mode = "Cruise" /\ speed >= maxspeed - 10 * FullAccel
         THEN "Cruise"
         ELSE IF mode = "Brake" THEN "Cruise" ELSE "Power"
    ELSE "Cruise"

advance == IF mode # nextmode THEN 2 ELSE 1

\* sqrt((1280/3.6+speed)*(400/3.6-speed))/(speed+440/3.6) above 200 km/h.
\* The product is formed from a quarter of its first factor to stay in range,
\* and the quotient is rounded to the nearest 1/Scale.
maxpower ==
    IF speed > KmhToSpeed(200)
    THEN LET root == 2 * sqrt(((KmhToSpeed(1280) + speed) \div 4) * (KmhToSpeed(400) - speed))
             denominator == speed + KmhToSpeed(440)
         IN  (2 * Scale * root + denominator) \div (2 * denominator)
    ELSE FullAccel

actual_accel == (Min(accel[mode], maxpower) + Min(accel[nextmode], maxpower)) \div 2

\* advance * (speed + actual_accel/2)
distance == (advance * (2 * speed + actual_accel)) \div 2

\* The halt test placed after the crossing test.
HaltsAfterCrossing == speed + actual_accel < 0 /\ posn + distance <= cursection

Halts == speed + actual_accel < 0

\* speed / -actual_accel * advance, in 1/Scale s
halt_time == (speed * advance * Scale) \div (-actual_accel)

\* The crossing test with a metre of slack past the end of the section.
CrossesWithSlack == posn + distance > cursection + LEEWAY

Crosses == posn + distance > cursection

Running == outcome = "Running" /\ t < MaxTime * Scale

(* ---------------------------- actions ---------------------------------- *)
Init ==
    /\ \E input \in InputTracks : tracksections = ReadTrack(input)
    /\ t = 0
    /\ section = 2
    /\ prevspeed = LINESPEED
    /\ cursection = tracksections[1][1]
    /\ curspeed = tracksections[1][2]
    /\ nextsection = tracksections[2][1]
    /\ nextspeed = tracksections[2][2]
    /\ posn = 0
    /\ mode = "Cruise"
    /\ speed = 0
    /\ outcome = "Running"
    /\ rs_speed = 0 /\ rs_distance = 0 /\ rs_result = <<>>

\* if speed > maxspeed: print("Derailed!"); break
Derailment ==
    /\ Running
    /\ Derails
    /\ outcome' = "Derailed"
    /\ UNCHANGED <<tracksections, section, t, prevspeed, cursection, curspeed,
                   nextsection, nextspeed, posn, mode, speed>>
    /\ UNCHANGED rsvars

\* if speed + actual_accel < 0: ... print("Halt at end of line."); break
Halt ==
    /\ Running
    /\ ~Derails
    /\ Halts
    /\ posn' = posn + (distance * halt_time) \div (advance * Scale)
    /\ t' = t + halt_time
    /\ outcome' = "Halt"
    /\ UNCHANGED <<tracksections, section, prevspeed, cursection, curspeed,
                   nextsection, nextspeed, mode, speed>>
    /\ UNCHANGED rsvars

\* An iteration that stays inside the current section.
Proceed ==
    /\ Running
    /\ ~Derails
    /\ ~Halts
    /\ ~Crosses
    /\ t' = t + advance * Scale
    /\ posn' = posn + distance
    /\ speed' = speed + actual_accel * advance
    /\ mode' = nextmode
    /\ UNCHANGED <<tracksections, section, prevspeed, cursection, curspeed,
                   nextsection, nextspeed, outcome>>
    /\ UNCHANGED rsvars

\* An iteration that reaches the end of the section; next(section) succeeds.
EnterNextSection ==
    /\ Running
    /\ ~Derails
    /\ ~Halts
    /\ Crosses
    /\ section < Len(tracksections)
    /\ cursection' = nextsection
    /\ curspeed' = nextspeed
    /\ nextsection' = tracksections[section + 1][1]
    /\ nextspeed' = tracksections[section + 1][2]
    /\ section' = section + 1
    /\ t' = t + advance * Scale
    /\ posn' = (posn - cursection) + distance
    /\ speed' = speed + actual_accel * advance
    /\ mode' = nextmode
    /\ UNCHANGED <<tracksections, prevspeed, outcome>>
    /\ UNCHANGED rsvars

\* An iteration that reaches the end of the section when the iterator is
\* exhausted: next(section) raises StopIteration and the program dies.
TrackExhausted ==
    /\ Running
    /\ ~Derails
    /\ ~Halts
    /\ Crosses
    /\ section >= Len(tracksections)
    /\ posn' = posn - cursection
    /\ cursection' = nextsection
    /\ curspeed' = nextspeed
    /\ outcome' = "StopIteration"
    /\ UNCHANGED <<tracksections, section, t, prevspeed, nextsection, nextspeed,
                   mode, speed>>
    /\ UNCHANGED rsvars

Next == Derailment \/ Halt \/ Proceed \/ EnterNextSection \/ TrackExhausted

Spec == Init /\ [][Next]_vars

(* ------------------- residual_speed on its own -------------------------- *)
RSSpeeds == {i * RSSpeedStep : i \in -1..MaxSpeedSteps}
RSDistances == {j * RSDistStep : j \in -1..MaxDistSteps}

InitRS ==
    /\ tracksections = ReadTrack(<<>>)
    /\ t = 0
    /\ section = 0
    /\ prevspeed = LINESPEED
    /\ cursection = 0 /\ curspeed = 0 /\ nextsection = 0 /\ nextspeed = 0
    /\ posn = 0
    /\ mode = "Cruise"
    /\ speed = 0
    /\ outcome = "NotStarted"
    /\ rs_speed \in RSSpeeds
    /\ rs_distance \in RSDistances
    /\ rs_result = <<>>

CallResidualSpeed ==
    /\ rs_result = <<>>
    /\ rs_result' = <<ResidualSpeed(rs_speed, rs_distance)>>
    /\ UNCHANGED <<rs_speed, rs_distance>>
    /\ UNCHANGED simvars

SpecRS == InitRS /\ [][CallResidualSpeed]_vars

(* ======================== properties =================================== *)
\* The last real section is the current one (the sentinel is the next one).
InLastSection == section = Len(tracksections)

\* C1: an iteration that starts with speed above maxspeed = min(curspeed,
\* prevspeed if posn < TRAINLENGTH else LINESPEED) reports Derailment and
\* changes nothing else: no mode decision or integration step is made from
\* such a state.
C1_OverspeedOnlyDerails ==
    [][(outcome = "Running"
        /\ speed > Min(curspeed, IF posn < TRAINLENGTH THEN prevspeed ELSE LINESPEED))
       => (outcome' = "Derailed"
           /\ UNCHANGED <<t, posn, speed, mode, section, cursection, curspeed>>)]_vars

\* C1 witness: a run has been ended by the derailment check with the train
\* above the limit.
C1_Witness == outcome = "Derailed" /\ speed > curspeed /\ t > 0

\* C2: a run that ends in Halt ends with speed 0 exactly at the end of the
\* track: in the last real section, at its full length.
C2_HaltAtEndOfTrack ==
    outcome = "Halt" => (speed = 0 /\ InLastSection /\ posn = cursection)

\* An iteration that changes nothing but the clock: the same mode again, no
\* acceleration and no distance covered.  The loop repeats it forever.
Stalled ==
    /\ outcome = "Running"
    /\ ~Derails /\ ~Halts /\ ~Crosses
    /\ nextmode = mode /\ actual_accel = 0 /\ distance = 0

\* C3: the loop ends, and only by Halt or Derailment: no run dies of the
\* exhausted iterator and no state is reached from which the loop iterates
\* forever without progress.
C3_LoopTerminates == outcome \in {"Running", "Halt", "Derailed"} /\ ~Stalled

\* The tracks of rules 1 and 2: every section is longer than the train, and
\* full braking from a section's limit at its start reaches the next
\* section's limit within the section.
BrakableTrack ==
    \A i \in 1..(Len(tracksections) - 1) :
        /\ tracksections[i][1] > TRAINLENGTH
        /\ tracksections[i][2] * tracksections[i][2]
             - tracksections[i + 1][2] * tracksections[i + 1][2]
           <= ((17 * Scale) \div 10) * tracksections[i][1]

\* C4: on a brakable track the train enters every section at no more than
\* that section's speed limit.
C4_BrakingNeverTooLate ==
    [][(BrakableTrack /\ section' = section + 1) => speed' <= curspeed']_vars

\* C5: a step that applies positive acceleration leaves the train at no more
\* than the speed limit of the section in which the step began.
C5_PowerWithinLimit ==
    [][(outcome = "Running" /\ ~Derails /\ actual_accel > 0 /\ t' > t)
       => speed' <= curspeed]_vars

\* The track of C6: 2000 m at 120 km/h, then 500 m at 40 km/h.
DecreasingLimits == ReadTrack(<<(<<2000, 120>>), (<<500, 40>>)>>)

\* C6: on the track 2000 m at 120 km/h, 500 m at 40 km/h the run never
\* reports Derailment (the half of the claim that a finite run refutes; the
\* other half is that Brake is selected before the first crossing).
C6_DecreasingLimitsNoDerailment ==
    tracksections = DecreasingLimits => outcome # "Derailed"

\* C7: on a single section of length L with limit V < LINESPEED the train
\* never exceeds V and the run ends in Halt, after moving, at rest at L.
C7_SingleSectionRoundTrip ==
    (Len(tracksections) = 2 /\ tracksections[1][2] < LINESPEED)
        => /\ speed <= tracksections[1][2]
           /\ outcome \in {"Running", "Halt"}
           /\ outcome = "Halt" => (t > 0 /\ speed = 0 /\ posn = tracksections[1][1])

\* C8: after a crossing prevspeed holds the speed limit of the section just
\* left.
C8_PrevspeedIsSectionLeft ==
    [][section' = section + 1 => prevspeed' = curspeed]_vars

\* C9: the crossing handler never asks the exhausted iterator for a section.
C9_TrackNeverExhausted == outcome # "StopIteration"

StepTaken == outcome = "Running" /\ ~Derails /\ t' > t

\* C11 as claimed: when the brake trigger fires in mode Power the next mode
\* is Cruise, and the iteration after that selects Brake (the Cruise phase
\* lasts exactly one step).
C11_BackOffThenBrake ==
    [][(StepTaken /\ mode = "Power" /\ BrakeTrigger)
       => /\ mode' = "Cruise"
          /\ (outcome' = "Running" /\ ~Derails') => nextmode' = "Brake"]_vars

\* C11 as amended: when the brake trigger fires in mode Power the step goes
\* to Cruise, never straight to Brake; nothing is said of the step after it.
C11_BackOffToCruise ==
    [][(StepTaken /\ mode = "Power" /\ BrakeTrigger) => mode' = "Cruise"]_vars

\* C11 witness: the train is under power, not derailing, and the brake
\* trigger has fired.
C11_Witness ==
    outcome = "Running" /\ ~Derails /\ mode = "Power" /\ BrakeTrigger /\ speed > 0

\* C12: the clock never goes back: an iteration that does not end the run
\* adds exactly 2 when the mode changes and exactly 1 when it does not, and a
\* Halt iteration adds a halt_time between 0 and the duration of its step.
C12_ClockAdvances ==
    [][outcome = "Running"
       => /\ t' >= t
          /\ outcome' = "Running"
               => t' - t = (IF mode' # mode THEN 2 ELSE 1) * Scale
          /\ outcome' = "Halt"
               => (0 <= t' - t /\ t' - t <= advance * Scale)]_vars

\* C13 as claimed: a step never both halts and crosses, and the crossing test
\* comes first: a step that reaches the end of the section is never a Halt.
C13_CrossingBeforeHalt ==
    [][(outcome = "Running" /\ ~Derails)
       => /\ outcome' = "Halt" => section' = section
          /\ posn + distance > cursection => outcome' # "Halt"]_vars

\* C13 as amended: a step never both halts and crosses, and the halt test
\* comes first: a step that would take the speed below zero is a Halt even
\* when it reaches the end of the section, and only the other steps cross.
C13_HaltBeforeCrossing ==
    [][(outcome = "Running" /\ ~Derails)
       => /\ outcome' = "Halt" => (section' = section /\ cursection' = cursection)
          /\ speed + actual_accel < 0 => outcome' = "Halt"
          /\ section' # section
               => (posn + distance > cursection /\ speed + actual_accel >= 0)]_vars

\* C13 witness: the train has halted past the end of its section, so the
\* halting step had reached the boundary too.
C13_Witness == outcome = "Halt" /\ posn > cursection

\* C14: the dwell heuristic: an iteration that starts outside Power with
\* speed >= maxspeed - 8.5 never selects Power, and one that starts in Cruise
\* with maxspeed - 8.5 <= speed < maxspeed and no brake trigger stays in Cruise.
C14_DwellBelowLimit ==
    [][(StepTaken /\ mode # "Power" /\ speed >= maxspeed - 10 * FullAccel)
       => /\ mode' # "Power"
          /\ (mode = "Cruise" /\ speed < maxspeed /\ ~BrakeTrigger)
               => mode' = "Cruise"]_vars

\* C14 witness: a second or later iteration in Cruise inside the margin with
\* no brake trigger, moving.
C14_Witness ==
    /\ outcome = "Running" /\ ~Derails /\ t > 0 /\ t < MaxTime * Scale
    /\ mode = "Cruise" /\ speed > 0
    /\ speed >= maxspeed - 10 * FullAccel /\ speed < maxspeed
    /\ ~BrakeTrigger

\* Every real section of the track is longer than the train.
AllSectionsLong ==
    \A i \in 1..(Len(tracksections) - 1) : tracksections[i][1] > TRAINLENGTH

\* C15: on tracks whose sections are all longer than the train, every
\* iteration starts with 0 <= posn <= cursection, and a crossing moves the
\* cursor on by exactly one section and takes the crossed section's length
\* off posn, which then lies inside the new section.
C15_PositionInsideSection ==
    /\ []((AllSectionsLong /\ outcome = "Running")
            => (0 <= posn /\ posn <= cursection))
    /\ [][(AllSectionsLong /\ outcome = "Running" /\ outcome' = "Running"
             /\ (cursection' # cursection \/ section' # section))
          => /\ section' = section + 1
             /\ cursection' = nextsection
             /\ nextsection' = tracksections[section + 1][1]
             /\ posn + distance > cursection
             /\ posn' = posn + distance - cursection
             /\ 0 <= posn' /\ posn' <= cursection']_vars

\* C15 witness: the train is running in the second section of such a track,
\* past its start.
C15_Witness ==
    /\ AllSectionsLong /\ outcome = "Running" /\ section = 3
    /\ cursection = tracksections[2][1] /\ speed > 0
    /\ 0 < posn /\ posn <= cursection

\* C16: every iteration starts with speed >= 0: the halt test stops every
\* step that would take the speed below zero, two-second steps included.
C16_SpeedNeverNegative ==
    /\ [](outcome = "Running" => speed >= 0)
    /\ [][(outcome = "Running" /\ ~Derails /\ speed + actual_accel * advance < 0)
          => outcome' = "Halt"]_vars

\* C17: the mode never goes straight from Power to Brake or from Brake to
\* Power: after Brake comes Brake or Cruise, after Power comes Power or
\* Cruise; and the blended acceleration of a step is one of -0.85, -0.425, 0,
\* maxpower/2 and maxpower.
C17_CruiseBetweenPowerAndBrake ==
    [][(outcome = "Running" /\ ~Derails)
       => /\ mode = "Brake" => mode' \in {"Brake", "Cruise"}
          /\ mode = "Power" => mode' \in {"Power", "Cruise"}
          /\ actual_accel \in {-FullAccel, -HalfAccel, 0, maxpower \div 2, maxpower}
          /\ outcome' = "Running"
               => speed' - speed = advance * actual_accel]_vars

\* C17 witness: the train, which started at rest, is braking at speed and goes
\* on braking.
C17_Witness ==
    /\ outcome = "Running" /\ ~Derails /\ t < MaxTime * Scale
    /\ mode = "Brake" /\ speed > FullAccel /\ nextmode = "Brake"

====
